---- MODULE Spec2Model ----
(***************************************************************************)
(* StockLensAnalytics: the analytics services behind the REST endpoints.   *)
(*                                                                         *)
(* Every operation is a single synchronous computation over the records of *)
(* one request.  A behaviour of the model is one request: the records of   *)
(* the request are put together (pc = "input"), then the service is called *)
(* once and its response is kept (pc = "done").                            *)
(*                                                                         *)
(* Numbers.  Prices are positive integers.  Values the services compute    *)
(* are exact rationals <<n, d>>; a rounded value round(x, k) is the        *)
(* integer number of 10^-k units, rounded half to even as numpy does.      *)
(* Dates are day numbers: pd.to_datetime orders ISO dates as day numbers   *)
(* are ordered, and strftime('%Y-%m-%d') writes the day back.              *)
(***************************************************************************)
EXTENDS Integers, Sequences, FiniteSets, TLC

VARIABLES
    op,        \* the operation the request calls
    records,   \* the records of the request, in the order they were sent
    args,      \* the scalar parameters of the request
    result,    \* the response of the service
    pc         \* "input" while the request is put together, then "done"

vars == <<op, records, args, result, pc>>

(***************************************************************************)
(* Bounds of the model                                                     *)
(***************************************************************************)
MaxPriceDate == 2       \* general_analytics: days in the calendar
MaxPriceRecords == 4    \* general_analytics: records in a request
MaxSectorDate == 3      \* sector-correlations: days in the calendar
MaxWeightDate == 4      \* portfolio metrics: days in the calendar
MaxOptimizeDate == 2    \* portfolio/optimize: days in the calendar
MaxOptimizeRecords == 3 \* portfolio/optimize: records in a request
MaxIndexDate == 3       \* anti-crisis, record by record: days in the calendar
MaxIndexRecords == 3    \* anti-crisis, record by record: records in a request
MaxRankDate == 3        \* anti-crisis, series by series: days in the calendar
MaxStocks == 11         \* anti-crisis, series by series: stocks in a request
MaxTied == 2            \* anti-crisis, series by series: stocks of equal score

NoArgs == [none |-> TRUE]
NoResult == [status |-> "none"]

(***************************************************************************)
(* Arithmetic                                                              *)
(***************************************************************************)
Abs(x) == IF x < 0 THEN -x ELSE x

RECURSIVE Gcd(_, _)
Gcd(a, b) == IF b = 0 THEN a ELSE Gcd(b, a % b)

\* n / d as a reduced fraction, d > 0
Rat(n, d) == LET g == Gcd(Abs(n), d) IN <<n \div g, d \div g>>

RatAdd(x, y) == Rat(x[1] * y[2] + y[1] * x[2], x[2] * y[2])
RatSub(x, y) == Rat(x[1] * y[2] - y[1] * x[2], x[2] * y[2])
RatMulInt(x, k) == Rat(x[1] * k, x[2])
RatDivInt(x, k) == Rat(x[1], x[2] * k)
RatLess(x, y) == x[1] * y[2] < y[1] * x[2]
RatLeq(x, y) == x[1] * y[2] <= y[1] * x[2]

RECURSIVE RatSum(_)
RatSum(s) == IF s = <<>> THEN <<0, 1>> ELSE RatAdd(Head(s), RatSum(Tail(s)))

RatMean(s) == RatDivInt(RatSum(s), Len(s))

\* the integer nearest to n / d (d > 0), a tie going to the even one
RoundHalfEvenDiv(n, d) ==
    LET q == n \div d
        r == n - q * d
    IN  IF 2 * r < d THEN q
        ELSE IF 2 * r > d THEN q + 1
        ELSE IF q % 2 = 0 THEN q ELSE q + 1

\* round(x, k) in units of 10^-k, unit = 10^k
RoundTo(x, unit) ==
    LET q == x[1] \div x[2]
    IN  unit * q + RoundHalfEvenDiv(unit * (x[1] - q * x[2]), x[2])

Round2(x) == RoundTo(x, 100)
Round3(x) == RoundTo(x, 1000)
Round4(x) == RoundTo(x, 10000)

\* the elements of a finite set of integers, ascending
RECURSIVE SortedSeq(_)
SortedSeq(S) ==
    IF S = {} THEN <<>>
    ELSE LET m == CHOOSE x \in S : \A y \in S : x <= y
         IN  <<m>> \o SortedSeq(S \ {m})

NaN == <<0, 0>>
IsNaN(x) == x[2] = 0

\* the sum of f over the keys
RECURSIVE SumOver(_, _)
SumOver(f, keys) ==
    IF keys = {} THEN 0
    ELSE LET k == CHOOSE x \in keys : TRUE IN f[k] + SumOver(f, keys \ {k})

\* df['symbol'].unique() and df['date'].unique(), as sets
SymbolsOf(df) == {df[i].symbol : i \in 1..Len(df)}
DatesOf(df) == {df[i].date : i \in 1..Len(df)}

(***************************************************************************)
(* The wide table: df.pivot(index='date', columns='symbol', values='close')*)
(***************************************************************************)
\* pivot raises ValueError when a (date, symbol) pair occurs twice
PivotHasDuplicates(df) ==
    \E i, j \in 1..Len(df) :
        i < j /\ df[i].symbol = df[j].symbol /\ df[i].date = df[j].date

\* the index of the pivot: the dates of the frame, ascending
PivotIndex(df) == SortedSeq(DatesOf(df))

\* a cell of the pivot; 0 stands for the missing value (closes are positive)
PivotCell(df, sym, d) ==
    IF \E i \in 1..Len(df) : df[i].symbol = sym /\ df[i].date = d
    THEN df[CHOOSE i \in 1..Len(df) : df[i].symbol = sym /\ df[i].date = d].close
    ELSE 0

\* the sample correlation of two series of equal length (Series.corr, and a
\* cell of DataFrame.corr).  Fewer than two points, or a constant series, give
\* NaN; two points give exactly 1 or -1.  For longer series the coefficient
\* is irrational in general: it is the value rho the numeric library returns,
\* some number in [-1, 1].
Pearson(x, y, rho) ==
    LET n == Len(x)
        constant(z) == \A k \in 1..n : z[k] = z[1]
    IN  IF n < 2 \/ constant(x) \/ constant(y) THEN NaN
        ELSE IF n = 2
             THEN IF RatLess(x[1], x[2]) = RatLess(y[1], y[2]) THEN <<1, 1>> ELSE <<-1, 1>>
             ELSE rho

\* the values the numeric library may return for a coefficient the model does
\* not compute
PearsonValues == {<<-1, 1>>, <<-1, 3>>, <<0, 1>>, <<1, 2>>, <<1, 1>>}

(***************************************************************************)
(* GeneralAnalyticsService: normalisation and averaging                    *)
(***************************************************************************)
PriceSymbols == {"AAPL", "GOOG"}
PriceCloses(sym) == IF sym = "AAPL" THEN {100, 110} ELSE {50, 60}

\* StockItem
StockItem ==
    UNION {[symbol : {s}, date : 1..MaxPriceDate, close : PriceCloses(s)] :
              s \in PriceSymbols}

\* df.groupby("symbol")["close"].transform("first"): for row i, the close of
\* the first row of the frame that carries row i's symbol
FirstPrice(df, i) ==
    LET first == CHOOSE j \in 1..i :
                    /\ df[j].symbol = df[i].symbol
                    /\ \A k \in 1..(j - 1) : df[k].symbol # df[i].symbol
    IN  df[first].close

\* df["normalized"] = (df["close"] / df["first_price"]) * 100
NormalizedColumn(df) ==
    [i \in 1..Len(df) |-> RatMulInt(Rat(df[i].close, FirstPrice(df, i)), 100)]

\* the dates of the frame in the order they first occur
RECURSIVE FirstOccurrences(_)
FirstOccurrences(s) ==
    IF s = <<>> THEN <<>>
    ELSE LET front == FirstOccurrences(SubSeq(s, 1, Len(s) - 1))
             last == s[Len(s)]
         IN  IF \E k \in 1..Len(front) : front[k] = last THEN front
             ELSE Append(front, last)

\* groupby("date", sort=False): the groups come in the order of the input
GroupByDateMeanUnsorted(df, column) ==
    LET keys == FirstOccurrences([i \in 1..Len(df) |-> df[i].date])
        rows(d) == SortedSeq({i \in 1..Len(df) : df[i].date = d})
        values(d) == [k \in 1..Len(rows(d)) |-> column[rows(d)[k]]]
    IN  [k \in 1..Len(keys) |->
            [date |-> keys[k], normalized |-> Round2(RatMean(values(keys[k])))]]

\* df.groupby("date")["normalized"].mean().round(2).reset_index()
GroupByDateMean(df, column) ==
    LET keys == SortedSeq({df[i].date : i \in 1..Len(df)})
        rows(d) == SortedSeq({i \in 1..Len(df) : df[i].date = d})
        values(d) == [k \in 1..Len(rows(d)) |-> column[rows(d)[k]]]
    IN  [k \in 1..Len(keys) |->
            [date |-> keys[k], normalized |-> Round2(RatMean(values(keys[k])))]]

normalize_prices_from_json(json_data) ==
    IF json_data = <<>> THEN <<>>
    ELSE GroupByDateMean(json_data, NormalizedColumn(json_data))

create_final_json_response(json_data) ==
    LET normalized_df == normalize_prices_from_json(json_data)
    IN  IF normalized_df = <<>> THEN <<>>
        ELSE [k \in 1..Len(normalized_df) |->
                [date |-> normalized_df[k].date,
                 normalized |-> normalized_df[k].normalized]]

InitNormalize ==
    /\ op = "general_analytics"
    /\ records = <<>>
    /\ args = NoArgs
    /\ result = NoResult
    /\ pc = "input"

AddStockItem ==
    /\ pc = "input"
    /\ op = "general_analytics"
    /\ Len(records) < MaxPriceRecords
    /\ \E r \in StockItem : records' = Append(records, r)
    /\ UNCHANGED <<op, args, result, pc>>

general_analytics ==
    /\ pc = "input"
    /\ op = "general_analytics"
    /\ result' = [status |-> "ok", data |-> create_final_json_response(records)]
    /\ pc' = "done"
    /\ UNCHANGED <<op, records, args>>

NextNormalize == AddStockItem \/ general_analytics

SpecNormalize == InitNormalize /\ [][NextNormalize]_vars

(***************************************************************************)
(* Claims about general_analytics                                          *)
(***************************************************************************)
GeneralAnalyticsDone == pc = "done" /\ op = "general_analytics"

\* no (symbol, date) pair occurs in two records
UniqueKeys(recs) ==
    \A i, j \in 1..Len(recs) :
        (recs[i].symbol = recs[j].symbol /\ recs[i].date = recs[j].date) => i = j

\* the row of the symbol's earliest-dated observation
EarliestRow(recs, sym) ==
    CHOOSE i \in 1..Len(recs) :
        /\ recs[i].symbol = sym
        /\ \A j \in 1..Len(recs) : recs[j].symbol = sym => recs[i].date <= recs[j].date

\* C2 (as the specification states it): whatever the order of the records,
\* every symbol is rebased on the close of its earliest-dated observation, so
\* its normalized value on its earliest date is exactly 100.
C2_FirstDateIs100 ==
    (GeneralAnalyticsDone /\ UniqueKeys(records)) =>
        \A sym \in SymbolsOf(records) :
            /\ FirstPrice(records, EarliestRow(records, sym))
                  = records[EarliestRow(records, sym)].close
            /\ NormalizedColumn(records)[EarliestRow(records, sym)] = <<100, 1>>

\* the value a symbol contributes on a date: its close on that date over the
\* base the engine rebased it on, times 100
RebasedValue(recs, sym, d) ==
    LET row == CHOOSE i \in 1..Len(recs) : recs[i].symbol = sym /\ recs[i].date = d
        base == CHOOSE i \in 1..Len(recs) :
                    recs[i].symbol = sym /\ \A j \in 1..(i - 1) : recs[j].symbol # sym
    IN  Rat(100 * recs[row].close, recs[base].close)

RECURSIVE RatSumOver(_, _, _)
RatSumOver(recs, syms, d) ==
    IF syms = {} THEN <<0, 1>>
    ELSE LET s == CHOOSE x \in syms : TRUE
         IN  RatAdd(RebasedValue(recs, s, d), RatSumOver(recs, syms \ {s}, d))

MeanOverSymbols(recs, d) ==
    LET syms == {recs[i].symbol : i \in {j \in 1..Len(recs) : recs[j].date = d}}
    IN  RatDivInt(RatSumOver(recs, syms, d), Cardinality(syms))

ScenarioInput ==
    <<[symbol |-> "AAPL", date |-> 1, close |-> 100],
      [symbol |-> "AAPL", date |-> 2, close |-> 110],
      [symbol |-> "GOOG", date |-> 1, close |-> 50],
      [symbol |-> "GOOG", date |-> 2, close |-> 60]>>

ScenarioOutput ==
    <<[date |-> 1, normalized |-> 10000], [date |-> 2, normalized |-> 11500]>>

\* C3: the response holds exactly one entry per distinct date of the input, in
\* ascending date order; each entry's value is the mean, over the symbols that
\* have an observation on that date, of the symbol's rebased value, rounded to
\* 2 decimals; the scenario of the specification gives 100.0 then 115.0.
C3_OneMeanPerDate ==
    GeneralAnalyticsDone =>
        LET out == result.data
        IN  /\ Len(out) = Cardinality(DatesOf(records))
            /\ {out[k].date : k \in 1..Len(out)} = DatesOf(records)
            /\ \A k \in 1..(Len(out) - 1) : out[k].date < out[k + 1].date
            /\ UniqueKeys(records) =>
                  \A k \in 1..Len(out) :
                      out[k].normalized
                          = RoundHalfEvenDiv(100 * MeanOverSymbols(records, out[k].date)[1],
                                             MeanOverSymbols(records, out[k].date)[2])
            /\ records = ScenarioInput => out = ScenarioOutput

C3_Witness ==
    /\ GeneralAnalyticsDone
    /\ records = ScenarioInput
    /\ result.data = ScenarioOutput

(***************************************************************************)
(* HeatmapForSectors: sector-to-sector correlations                        *)
(***************************************************************************)
SectorSymbols == <<"GAZP", "SBER">>              \* in lexicographic order
SectorNames == <<"Energy", "Finance", "Tech">>   \* in lexicographic order
SectorCloses == {100, 110}

\* how the sector of a symbol's records runs: the first record carries the
\* first name, every later record the second; "repeat" sends the first
\* record a second time
SectorPatterns(sym) ==
    IF sym = "GAZP"
    THEN {[first |-> "Energy", rest |-> "Energy", repeat |-> FALSE],
          [first |-> "Energy", rest |-> "Tech", repeat |-> FALSE],
          [first |-> "Energy", rest |-> "Energy", repeat |-> TRUE]}
    ELSE {[first |-> "Tech", rest |-> "Tech", repeat |-> FALSE],
          [first |-> "Energy", rest |-> "Energy", repeat |-> FALSE],
          [first |-> "Tech", rest |-> "Finance", repeat |-> FALSE]}

Rank(seq, x) == CHOOSE k \in 1..Len(seq) : seq[k] = x

\* SectorStockItem records of one symbol, by date; closes[d] = 0: no record
SectorSeries(sym, closes, pattern) ==
    LET days == SortedSeq({d \in DOMAIN closes : closes[d] # 0})
        rows == [k \in 1..Len(days) |->
                    [symbol |-> sym, date |-> days[k], close |-> closes[days[k]],
                     sector |-> IF k = 1 THEN pattern.first ELSE pattern.rest]]
    IN  IF pattern.repeat THEN Append(rows, rows[1]) ELSE rows

\* pivot.pct_change(): the change of column sym at position k of the index.
\* With pad (fill_method='pad', the default before pandas 3) a missing price
\* is first filled with the last price before it.
Filled(df, sym, k, pad) ==
    LET index == PivotIndex(df)
        known == {j \in 1..k : PivotCell(df, sym, index[j]) # 0}
    IN  IF pad
        THEN IF known = {} THEN 0
             ELSE PivotCell(df, sym, index[CHOOSE j \in known : \A i \in known : i <= j])
        ELSE PivotCell(df, sym, index[k])

PctChange(df, sym, k, pad) ==
    IF k = 1 THEN NaN
    ELSE LET now == Filled(df, sym, k, pad)
             before == Filled(df, sym, k - 1, pad)
         IN  IF now = 0 \/ before = 0 THEN NaN ELSE Rat(now - before, before)

\* .dropna(): the positions of the index whose row has no missing change
ReturnRows(df, pad) ==
    SortedSeq({k \in 1..Len(PivotIndex(df)) :
                  \A sym \in SymbolsOf(df) : ~IsNaN(PctChange(df, sym, k, pad))})

\* returns = pivot.pct_change().dropna(), column by column
Returns(df, pad) ==
    LET rows == ReturnRows(df, pad)
    IN  [sym \in SymbolsOf(df) |->
            [m \in 1..Len(rows) |-> PctChange(df, sym, rows[m], pad)]]

\* sorted(df['sector'].unique())
SortedSectors(df) ==
    LET present == {Rank(SectorNames, df[i].sector) : i \in 1..Len(df)}
        order == SortedSeq(present)
    IN  [k \in 1..Len(order) |-> SectorNames[order[k]]]

\* every symbol that has some record of the sector
SymbolsSeenInSector(df, sec) ==
    {df[i].symbol : i \in {j \in 1..Len(df) : df[j].sector = sec}}

\* ticker_sector: df[['symbol','sector']].drop_duplicates() keeps the first row
\* of every (symbol, sector) pair; to_dict() keeps, for a symbol, the last
\* of them
TickerSector(df, sym) ==
    LET secs == {df[i].sector : i \in {j \in 1..Len(df) : df[j].symbol = sym}}
        firstRow(sec) == CHOOSE i \in 1..Len(df) :
                            /\ df[i].symbol = sym /\ df[i].sector = sec
                            /\ \A j \in 1..(i - 1) : ~(df[j].symbol = sym /\ df[j].sector = sec)
    IN  CHOOSE sec \in secs : \A o \in secs : firstRow(o) <= firstRow(sec)

\* [t for t, sec in ticker_sector.items() if sec == s1]
TickersOfSector(df, sec) == {sym \in SymbolsOf(df) : TickerSector(df, sym) = sec}

\* the correlations of every ticker of s1 with every ticker of s2, NaN left out
CorrValues(df, returns, s1, s2, rho) ==
    LET pairs == {pr \in TickersOfSector(df, s1) \X TickersOfSector(df, s2) :
                     ~IsNaN(Pearson(returns[pr[1]], returns[pr[2]], rho))}
        order == SortedSeq({Rank(SectorSymbols, pr[1]) * 10 + Rank(SectorSymbols, pr[2]) :
                               pr \in pairs})
    IN  [k \in 1..Len(order) |->
            Pearson(returns[SectorSymbols[order[k] \div 10]],
                    returns[SectorSymbols[order[k] % 10]], rho)]

\* avg_corr = round(np.mean(corr_values), 4) if corr_values else 0.0
AvgCorr(df, returns, s1, s2, rho) ==
    LET corr_values == CorrValues(df, returns, s1, s2, rho)
    IN  IF corr_values = <<>> THEN 0 ELSE Round4(RatMean(corr_values))

\* corr_matrix[i, j] = avg_corr only: the mirrored cell is forgotten
StorePairUpperOnly(m, i, j, v) == [m EXCEPT ![i][j] = v]

\* corr_matrix[i, j] = avg_corr; corr_matrix[j, i] = avg_corr
StorePair(m, i, j, v) == [m EXCEPT ![i][j] = v, ![j][i] = v]

\* the two loops over the sectors, i the outer one: position (i, j) and what
\* follows it
RECURSIVE FillMatrix(_, _, _, _, _, _)
FillMatrix(m, i, j, df, returns, rho) ==
    LET sectors == SortedSectors(df)
        n == Len(sectors)
    IN  IF i > n THEN m
        ELSE IF j > n THEN FillMatrix(m, i + 1, 1, df, returns, rho)
        ELSE IF j = 1 /\ m[i][i] = 0
             THEN FillMatrix([m EXCEPT ![i][i] = 10000], i, j, df, returns, rho)
        ELSE IF i >= j THEN FillMatrix(m, i, j + 1, df, returns, rho)
        ELSE FillMatrix(StorePair(m, i, j, AvgCorr(df, returns, sectors[i], sectors[j], rho)),
                        i, j + 1, df, returns, rho)

\* every symbol with a record of the sector counted, whatever ticker_sector holds
StocksPerSectorByRecords(df) ==
    LET sectors == SortedSectors(df)
    IN  [sec \in {sectors[k] : k \in 1..Len(sectors)} |->
            Cardinality(SymbolsSeenInSector(df, sec))]

\* stocks_per_sector[s1] = len(tickers1)
StocksPerSector(df) ==
    LET sectors == SortedSectors(df)
    IN  [sec \in {sectors[k] : k \in 1..Len(sectors)} |->
            Cardinality(TickersOfSector(df, sec))]

ValueError(detail) == [status |-> "error", error |-> "ValueError", detail |-> detail]
TypeError(detail) == [status |-> "error", error |-> "TypeError", detail |-> detail]

compute_sector_correlations(data, pad, rho) ==
    IF data = <<>> THEN ValueError("empty input")
    ELSE IF PivotHasDuplicates(data) THEN ValueError("duplicate entries")
    ELSE LET n_sectors == Len(SortedSectors(data))
             zeros == [i \in 1..n_sectors |-> [j \in 1..n_sectors |-> 0]]
         IN  [status |-> "ok",
              sectors |-> SortedSectors(data),
              matrix |-> FillMatrix(zeros, 1, 1, data, Returns(data, pad), rho),
              stocks_per_sector |-> StocksPerSector(data)]

\* the coefficients the library may return for the frame: a choice only where
\* a pair of columns has three returns or more
PearsonChoices(rows) == IF rows >= 3 THEN PearsonValues ELSE {<<0, 1>>}

InitSectors ==
    /\ op = "sector_correlations"
    /\ records = <<>>
    /\ args = NoArgs
    /\ result = NoResult
    /\ pc = "input"

AddSectorSeries ==
    /\ pc = "input"
    /\ op = "sector_correlations"
    /\ \E k \in 1..Len(SectorSymbols) :
         /\ \A i \in 1..Len(records) : Rank(SectorSymbols, records[i].symbol) < k
         /\ \E closes \in [1..MaxSectorDate -> SectorCloses \cup {0}],
                 pattern \in SectorPatterns(SectorSymbols[k]) :
              /\ \E d \in DOMAIN closes : closes[d] # 0
              /\ records' = records \o SectorSeries(SectorSymbols[k], closes, pattern)
    /\ UNCHANGED <<op, args, result, pc>>

\* pad: whether the installed pandas fills a missing price forward in
\* pct_change (the default before pandas 3) or leaves it missing
sector_correlations ==
    /\ pc = "input"
    /\ op = "sector_correlations"
    /\ \E pad \in BOOLEAN :
         \E rho \in PearsonChoices(IF records = <<>> \/ PivotHasDuplicates(records) THEN 0
                                    ELSE Len(ReturnRows(records, pad))) :
            result' = compute_sector_correlations(records, pad, rho)
    /\ pc' = "done"
    /\ UNCHANGED <<op, records, args>>

NextSectors == AddSectorSeries \/ sector_correlations

SpecSectors == InitSectors /\ [][NextSectors]_vars

(***************************************************************************)
(* Claims about sector_correlations                                        *)
(***************************************************************************)
SectorsReturned == pc = "done" /\ op = "sector_correlations" /\ result.status = "ok"

\* C4: for every valid input the matrix is square over the sorted distinct
\* sectors of the input, every diagonal cell is 1.0 and the matrix is
\* symmetric.
C4_SymmetricUnitDiagonal ==
    SectorsReturned =>
        LET n == Len(result.sectors)
            m == result.matrix
        IN  /\ {result.sectors[k] : k \in 1..n} = {records[i].sector : i \in 1..Len(records)}
            /\ \A k \in 1..(n - 1) :
                  Rank(SectorNames, result.sectors[k]) < Rank(SectorNames, result.sectors[k + 1])
            /\ DOMAIN m = 1..n
            /\ \A i \in 1..n : DOMAIN m[i] = 1..n
            /\ \A i \in 1..n : m[i][i] = 10000
            /\ \A i, j \in 1..n : m[i][j] = m[j][i]

\* a matrix over two sectors or more with a cell off the diagonal that is not 0
C4_Witness ==
    /\ SectorsReturned
    /\ Len(result.sectors) >= 2
    /\ \E i, j \in 1..Len(result.sectors) : i # j /\ result.matrix[i][j] # 0

\* C5: the counts of stocks_per_sector, summed over the sectors returned, are
\* the number of distinct symbols of the input, also when a symbol's records
\* carry different sectors.
C5_CountsSumToSymbols ==
    SectorsReturned =>
        /\ DOMAIN result.stocks_per_sector = {result.sectors[k] : k \in 1..Len(result.sectors)}
        /\ SumOver(result.stocks_per_sector, DOMAIN result.stocks_per_sector)
              = Cardinality(SymbolsOf(records))

\* a symbol whose records carry two sectors, and a sector that counts no stock
C5_Witness ==
    /\ SectorsReturned
    /\ \E i, j \in 1..Len(records) :
          records[i].symbol = records[j].symbol /\ records[i].sector # records[j].sector
    /\ \E sec \in DOMAIN result.stocks_per_sector : result.stocks_per_sector[sec] = 0
    /\ Cardinality(SymbolsOf(records)) = 2

(***************************************************************************)
(* PortfolioService.calculate_metrics: metrics of a weighted portfolio     *)
(*                                                                         *)
(* Weights are integers in units of 10^-8.  A log return ln(p_t / p_t-1)   *)
(* is kept as its argument p_t / p_t-1: ln is increasing, so two log       *)
(* returns are equal, or one is less than the other, as their arguments    *)
(* are.  expected_return, volatility and sharpe_ratio are sums of          *)
(* logarithms and square roots; the response of the model carries the two  *)
(* fields that are not, average_correlation and diversification_index.     *)
(***************************************************************************)
WeightOne == 100000000          \* 1.0
IsCloseATol == 1                \* np.isclose: atol = 1e-8
IsCloseRTolInverse == 100000    \* np.isclose: rtol = 1e-5

WeightSymbols == <<"GAZP", "SBER">>   \* in lexicographic order
WeightCloses == {100, 110}
WeightValues(sym) ==
    IF sym = "GAZP" THEN {50000000, 100000000}
    ELSE {48000000, 50000000, 50000050, 50000500, 52000000}

\* how the records of a symbol run: "plain"; "drift": the last record carries
\* another percentage; "repeat": the first record is sent a second time
WeightPatterns(sym) == IF sym = "GAZP" THEN {"plain", "drift", "repeat"} ELSE {"plain"}

\* the price series of a symbol: GAZP has a price on every day, SBER may
\* have days without one (closes[d] = 0)
WeightSeriesCloses(sym) ==
    IF sym = "GAZP" THEN [1..MaxWeightDate -> WeightCloses]
    ELSE {c \in [1..MaxWeightDate -> WeightCloses \cup {0}] : \E d \in DOMAIN c : c[d] # 0}

\* OwnWeightsItem records of one symbol, by date
OwnWeightsSeries(sym, closes, weight, pattern) ==
    LET days == SortedSeq({d \in DOMAIN closes : closes[d] # 0})
        n == Len(days)
        rows == [k \in 1..n |->
                    [symbol |-> sym, date |-> days[k], close |-> closes[days[k]],
                     percentage |-> IF pattern = "drift" /\ k = n /\ n > 1
                                    THEN weight + 1000000 ELSE weight]]
    IN  IF pattern = "repeat" THEN Append(rows, rows[1]) ELSE rows

\* group['percentage'].unique()
Percentages(df, sym) ==
    {df[i].percentage : i \in {j \in 1..Len(df) : df[j].symbol = sym}}

\* weights_dict[symbol] = percentages[0]
WeightsDict(df) ==
    [sym \in SymbolsOf(df) |->
        df[CHOOSE i \in 1..Len(df) :
              df[i].symbol = sym /\ \A j \in 1..(i - 1) : df[j].symbol # sym].percentage]

\* np.isclose(a, b): abs(a - b) <= atol + rtol * abs(b)
IsClose(a, b) == Abs(a - b) <= IsCloseATol + Abs(b) \div IsCloseRTolInverse

\* np.log(pivot / pivot.shift(1)): the return of column sym at position k of
\* the index, NaN when either price is missing
LogReturn(df, sym, k) ==
    LET index == PivotIndex(df)
    IN  IF k = 1 THEN NaN
        ELSE LET now == PivotCell(df, sym, index[k])
                 before == PivotCell(df, sym, index[k - 1])
             IN  IF now = 0 \/ before = 0 THEN NaN ELSE Rat(now, before)

\* every position of the index after the first: no date discarded for a gap
LogReturnRowsKeepDates(df) ==
    SortedSeq(2..Len(PivotIndex(df)))

\* .dropna(): the positions of the index whose row has no missing return
LogReturnRows(df) ==
    SortedSeq({k \in 1..Len(PivotIndex(df)) :
                  \A sym \in SymbolsOf(df) : ~IsNaN(LogReturn(df, sym, k))})

\* returns, column by column
LogReturns(df) ==
    LET rows == LogReturnRows(df)
    IN  [sym \in SymbolsOf(df) |->
            [m \in 1..Len(rows) |-> LogReturn(df, sym, rows[m])]]

\* upper_tri.stack(): the cells of returns.corr() above the diagonal, NaN
\* left out
UpperTriangle(df, returns, rho) ==
    LET order == SortedSeq({Rank(WeightSymbols, sym) : sym \in SymbolsOf(df)})
        n == Len(order)
        cell(a, b) == Pearson(returns[WeightSymbols[order[a]]],
                              returns[WeightSymbols[order[b]]], rho)
        kept == SortedSeq({q[1] * 10 + q[2] :
                              q \in {c \in (1..n) \X (1..n) :
                                        c[1] < c[2] /\ ~IsNaN(cell(c[1], c[2]))}})
    IN  [k \in 1..Len(kept) |-> cell(kept[k] \div 10, kept[k] % 10)]

\* avg_corr = upper_tri.stack().mean(); 0.0 if np.isnan(avg_corr)
AverageCorrelation(df, returns, rho) ==
    LET cells == UpperTriangle(df, returns, rho)
    IN  IF cells = <<>> THEN <<0, 1>> ELSE RatMean(cells)

Max(a, b) == IF RatLess(a, b) THEN b ELSE a
Min(a, b) == IF RatLess(b, a) THEN b ELSE a

\* 1.0 - avg_corr, not clamped
DiversificationUnclamped(avg_corr) == RatSub(<<1, 1>>, avg_corr)

\* div_index = max(0.0, min(1.0, 1.0 - avg_corr))
Diversification(avg_corr) ==
    Max(<<0, 1>>, Min(<<1, 1>>, RatSub(<<1, 1>>, avg_corr)))

calculate_metrics(data, rho) ==
    IF data = <<>> THEN ValueError("empty input")
    ELSE IF \E sym \in SymbolsOf(data) : Cardinality(Percentages(data, sym)) > 1
    THEN ValueError("different percentage")
    ELSE IF ~IsClose(SumOver(WeightsDict(data), SymbolsOf(data)), WeightOne)
    THEN ValueError("weights must sum to 1")
    ELSE IF PivotHasDuplicates(data) THEN ValueError("duplicate entries")
    ELSE IF LogReturnRows(data) = <<>> THEN ValueError("not enough data")
    ELSE LET avg_corr == AverageCorrelation(data, LogReturns(data), rho)
         IN  [status |-> "ok",
              average_correlation |-> Round4(avg_corr),
              diversification_index |-> Round4(Diversification(avg_corr))]

InitMetrics ==
    /\ op = "portfolio_metrics"
    /\ records = <<>>
    /\ args = NoArgs
    /\ result = NoResult
    /\ pc = "input"

AddOwnWeightsSeries ==
    /\ pc = "input"
    /\ op = "portfolio_metrics"
    /\ \E k \in 1..Len(WeightSymbols) :
         /\ \A i \in 1..Len(records) : Rank(WeightSymbols, records[i].symbol) < k
         /\ \E closes \in WeightSeriesCloses(WeightSymbols[k]),
               weight \in WeightValues(WeightSymbols[k]),
               pattern \in WeightPatterns(WeightSymbols[k]) :
              records' = records \o OwnWeightsSeries(WeightSymbols[k], closes, weight, pattern)
    /\ UNCHANGED <<op, args, result, pc>>

portfolio_metrics ==
    /\ pc = "input"
    /\ op = "portfolio_metrics"
    /\ \E rho \in PearsonChoices(IF records = <<>> \/ PivotHasDuplicates(records) THEN 0
                                 ELSE Len(LogReturnRows(records))) :
         result' = calculate_metrics(records, rho)
    /\ pc' = "done"
    /\ UNCHANGED <<op, records, args>>

NextMetrics == AddOwnWeightsSeries \/ portfolio_metrics

SpecMetrics == InitMetrics /\ [][NextMetrics]_vars

(***************************************************************************)
(* Claims about portfolio_metrics                                          *)
(***************************************************************************)
MetricsDone == pc = "done" /\ op = "portfolio_metrics"

ClaimedTolerance == 100     \* 1e-6

\* every symbol carries one weight on all its records
WeightsConstant(recs) ==
    \A i, j \in 1..Len(recs) :
        recs[i].symbol = recs[j].symbol => recs[i].percentage = recs[j].percentage

\* the sum of the per-symbol weights
WeightSum(recs) ==
    SumOver([sym \in SymbolsOf(recs) |->
                recs[CHOOSE i \in 1..Len(recs) : recs[i].symbol = sym].percentage],
            SymbolsOf(recs))

\* C1 (as the specification states it): the weights are accepted only when
\* their sum S is within 1e-6 of 1.0: with |S - 1| > 1e-6 the call is
\* rejected and returns no metrics, with |S - 1| <= 1e-6 it is not rejected
\* for the sum of the weights.
C1_WeightSumWithin1e6 ==
    (MetricsDone /\ records # <<>> /\ WeightsConstant(records)) =>
        /\ Abs(WeightSum(records) - WeightOne) > ClaimedTolerance
              => result.status = "error"
        /\ Abs(WeightSum(records) - WeightOne) <= ClaimedTolerance
              => ~(result.status = "error" /\ result.detail = "weights must sum to 1")

\* C7: whenever metrics are returned, diversification_index is in [0.0, 1.0],
\* whatever the average correlation, also when it is undefined and taken as 0.
C7_DiversificationInUnitInterval ==
    (MetricsDone /\ result.status = "ok") =>
        /\ result.diversification_index >= 0
        /\ result.diversification_index <= 10000
        /\ result.average_correlation >= -10000
        /\ result.average_correlation <= 10000

\* a negative average correlation: 1 - avg_corr is 2.0 and is clamped to 1.0
C7_Witness ==
    /\ MetricsDone
    /\ result.status = "ok"
    /\ result.average_correlation = -10000
    /\ result.diversification_index = 10000

(***************************************************************************)
(* POST /portfolio/optimize                                                *)
(***************************************************************************)
\* the methods class PortfolioService defines
PortfolioServiceMethods == {"calculate_metrics"}

OptimizeItem == [symbol : {"GAZP", "SBER"}, date : 1..MaxOptimizeDate, close : {100, 110}]

HTTPException(status_code, detail) ==
    [status |-> "error", status_code |-> status_code, detail |-> detail]

\* PortfolioService.optimize(data=..., linkage_method=..., risk_free_rate=...):
\* what evaluating the call raises.  Looking up an attribute the class does
\* not define raises AttributeError before anything is computed.
CallOptimize(data) ==
    IF "optimize" \in PortfolioServiceMethods
    THEN [raised |-> "nothing"]
    ELSE [raised |-> "AttributeError"]

\* the body of the endpoint: try / except ValueError / except Exception
optimize_response(data) ==
    LET call == CallOptimize(data)
    IN  IF call.raised = "nothing" THEN [status |-> "ok"]
        ELSE IF call.raised = "ValueError" THEN HTTPException(400, "ValueError")
        ELSE HTTPException(500, "Internal server error")

InitOptimize ==
    /\ op = "portfolio_optimize"
    /\ records = <<>>
    /\ args = NoArgs
    /\ result = NoResult
    /\ pc = "input"

AddOptimizeItem ==
    /\ pc = "input"
    /\ op = "portfolio_optimize"
    /\ Len(records) < MaxOptimizeRecords
    /\ \E r \in OptimizeItem : records' = Append(records, r)
    /\ UNCHANGED <<op, args, result, pc>>

optimize ==
    /\ pc = "input"
    /\ op = "portfolio_optimize"
    /\ result' = optimize_response(records)
    /\ pc' = "done"
    /\ UNCHANGED <<op, records, args>>

NextOptimize == AddOptimizeItem \/ optimize

SpecOptimize == InitOptimize /\ [][NextOptimize]_vars

(***************************************************************************)
(* Claims about portfolio_optimize                                         *)
(***************************************************************************)
\* the assets that survive alignment: those with a price on every date
SurvivingAssets(recs) ==
    {sym \in SymbolsOf(recs) :
        \A d \in DatesOf(recs) : \E i \in 1..Len(recs) : recs[i].symbol = sym /\ recs[i].date = d}

\* C8 (as the specification states it): with fewer than 2 surviving assets the
\* call fails with the caller-visible validation error (invalid input, not an
\* internal failure); with 2 or more it returns the weights and the metrics.
C8_InsufficientAssetsIsInvalidInput ==
    (pc = "done" /\ op = "portfolio_optimize" /\ records # <<>> /\ UniqueKeys(records)) =>
        /\ Cardinality(SurvivingAssets(records)) < 2
              => (result.status = "error" /\ result.status_code = 400)
        /\ Cardinality(SurvivingAssets(records)) >= 2 => result.status = "ok"

(***************************************************************************)
(* Top10AntiCrisisService: the anti-crisis ranking                         *)
(*                                                                         *)
(* "value" is the traded value in roubles, written in digits, and          *)
(* avg_dividend a whole number of percent; either may be None.  In a       *)
(* response, dividend_yield and score are <<hundredths, 100>> or NaN, the  *)
(* other numbers are whole numbers of their last decimal.                  *)
(***************************************************************************)
None == -1
NoneObject == <<1, 0>>            \* a cell of an object column that holds None
TopN == 10
Million == 1000000
StressThreshold == <<-1, 1>>      \* threshold=-1.0

\* the tickers of the model, in lexicographic order
Tickers ==
    <<"AFLT", "ALRS", "CHMF", "GAZP", "GMKN", "LKOH", "MGNT",
      "MTSS", "NVTK", "PLZL", "ROSN", "SBER", "TATN", "VTBR">>

\* df[df['symbol'] == 'MOEX'][['date', 'close']]
MoexRows(df) == SelectSeq(df, LAMBDA r : r.symbol = "MOEX")

\* df[df['symbol'] != 'MOEX']
StocksFrame(df) == SelectSeq(df, LAMBDA r : r.symbol # "MOEX")

\* pd.to_numeric(value, errors='coerce').fillna(0).astype(int)
ToNumeric(value) == IF value = None THEN 0 ELSE value

\* a cell of df['avg_dividend']: the column holds floats, and NaN for None,
\* as soon as one record has a dividend; it holds the None objects otherwise
AvgDividendCell(df, avg_dividend) ==
    IF avg_dividend # None THEN <<avg_dividend, 1>>
    ELSE IF \A i \in 1..Len(df) : df[i].avg_dividend = None THEN NoneObject
    ELSE NaN

\* stocks_dict: the symbols as groupby('Symbol') yields them, ascending
StockSymbols(df) ==
    LET order == SortedSeq({Rank(Tickers, r.symbol) :
                               r \in {df[i] : i \in {j \in 1..Len(df) : df[j].symbol # "MOEX"}}})
    IN  [k \in 1..Len(order) |-> Tickers[order[k]]]

\* stocks_dict[symbol]: the rows of the symbol in the order they were sent
StockGroup(df, sym) ==
    LET rows == SelectSeq(df, LAMBDA r : r.symbol = sym)
    IN  [k \in 1..Len(rows) |->
            [date |-> rows[k].date, close |-> rows[k].close,
             value |-> ToNumeric(rows[k].value),
             AvgDividend |-> AvgDividendCell(df, rows[k].avg_dividend)]]

\* close.pct_change() * 100 between two rows that follow each other
PctReturn(now, before) == Rat(100 * (now - before), before)

\* find_stress_days: the dates of the rows, from the second one on, whose
\* close is down by the threshold or more on the row before it
find_stress_days(moex_data, threshold) ==
    LET hits == SortedSeq({k \in 2..Len(moex_data) :
                              RatLeq(PctReturn(moex_data[k].close, moex_data[k - 1].close),
                                     threshold)})
    IN  [m \in 1..Len(hits) |-> moex_data[hits[m]].date]

\* pd.merge(left, right, on='date'): the rows of left in their order, each
\* with every row of right of the same date
RECURSIVE Merge(_, _)
Merge(left, right) ==
    IF left = <<>> THEN <<>>
    ELSE LET same == SelectSeq(right, LAMBDA r : r.date = Head(left).date)
         IN  [k \in 1..Len(same) |->
                 [date |-> Head(left).date, close_stock |-> Head(left).close,
                  close_moex |-> same[k].close]]
             \o Merge(Tail(left), right)

\* stock_data['value'].mean() / 1_000_000
AvgVolume(stock_data) ==
    Rat(RatSum([k \in 1..Len(stock_data) |-> <<stock_data[k].value, 1>>])[1],
        Len(stock_data) * Million)

\* round(x, 2) of a float that may be NaN
Rounded2(x) == IF IsNaN(x) THEN NaN ELSE <<Round2(x), 100>>

\* a <= b on floats: false as soon as one of them is NaN
FloatLeq(a, b) == ~IsNaN(a) /\ ~IsNaN(b) /\ a[1] * b[2] <= b[1] * a[2]

\* calculate_anti_crisis_score: None, the dictionary of the scores, or the
\* TypeError of adding None to a float
calculate_anti_crisis_score(stock_data, stress_dates, moex_data) ==
    LET stress == {stress_dates[k] : k \in 1..Len(stress_dates)}
        stress_stock == SelectSeq(stock_data, LAMBDA r : r.date \in stress)
        stress_moex == SelectSeq(moex_data, LAMBDA r : r.date \in stress)
        merged == Merge(stress_stock, stress_moex)
        n == Len(merged) - 1
        stock_returns == [k \in 1..n |->
                             PctReturn(merged[k + 1].close_stock, merged[k].close_stock)]
        moex_returns == [k \in 1..n |->
                            PctReturn(merged[k + 1].close_moex, merged[k].close_moex)]
        relative_strength ==
            RatMean([k \in 1..n |-> RatSub(stock_returns[k], moex_returns[k])])
        better_days == Cardinality({k \in 1..n : RatLess(moex_returns[k], stock_returns[k])})
        resilient_ratio == Rat(better_days, n)
        dividend_yield == stock_data[Len(stock_data)].AvgDividend
        score == IF IsNaN(dividend_yield) THEN NaN
                 ELSE RatAdd(RatAdd(RatMulInt(relative_strength, 2),
                                    RatMulInt(resilient_ratio, 100)),
                             dividend_yield)
    IN  IF Len(merged) < 2 THEN [outcome |-> "None"]
        ELSE IF dividend_yield = NoneObject THEN [outcome |-> "TypeError"]
        ELSE [outcome |-> "scores",
              relative_strength |-> Round2(relative_strength),
              resilient_ratio |-> Round3(resilient_ratio),
              dividend_yield |-> Rounded2(dividend_yield),
              avg_volume |-> Round2(AvgVolume(stock_data)),
              score |-> Rounded2(score)]

\* no stock held back for its traded value
NeverBelowLiquidity(stock_data, liquidity_min) == FALSE

\* the liquidity filter: avg_vol < liquidity_min
BelowLiquidity(stock_data, liquidity_min) == RatLess(AvgVolume(stock_data), <<liquidity_min, 1>>)

\* results: one row for every stock, in the order of stocks_dict, that passes
\* the liquidity filter and gets a score; raised: the scoring of a stock
\* raised TypeError
RECURSIVE Results(_, _, _, _)
Results(df, symbols, stress_dates, liquidity_min) ==
    IF symbols = <<>> THEN [raised |-> FALSE, rows |-> <<>>]
    ELSE LET ticker == Head(symbols)
             stock_df == StockGroup(df, ticker)
             score_data == calculate_anti_crisis_score(stock_df, stress_dates, MoexRows(df))
             rest == Results(df, Tail(symbols), stress_dates, liquidity_min)
         IN  IF BelowLiquidity(stock_df, liquidity_min) THEN rest
             ELSE IF score_data.outcome = "None" THEN rest
             ELSE IF score_data.outcome = "TypeError" THEN [raised |-> TRUE, rows |-> <<>>]
             ELSE [raised |-> rest.raised,
                   rows |-> <<[ticker |-> ticker,
                               relative_strength |-> score_data.relative_strength,
                               resilient_ratio |-> score_data.resilient_ratio,
                               dividend_yield |-> score_data.dividend_yield,
                               avg_volume |-> score_data.avg_volume,
                               score |-> score_data.score]>> \o rest.rows]

\* sort_values('score', ascending=False): the orders the rows may come out
\* in.  The sort is pandas' default quicksort, which is not stable: rows of
\* equal score come out in any order.  Rows whose score is NaN come last.
RECURSIVE SortedOrders(_, _)
SortedOrders(rows, left) ==
    IF left = {} THEN {<<>>}
    ELSE LET numbers == {i \in left : ~IsNaN(rows[i].score)}
             top == IF numbers = {} THEN left
                    ELSE {i \in numbers :
                             \A j \in numbers : FloatLeq(rows[j].score, rows[i].score)}
         IN  UNION {{<<rows[i]>> \o rest : rest \in SortedOrders(rows, left \ {i})} : i \in top}

\* .head(10)
Head10(rows) == SubSeq(rows, 1, IF Len(rows) < TopN THEN Len(rows) ELSE TopN)

\* df_results['rank'] = range(1, len(df_results) + 1)
WithRank(rows) ==
    [k \in 1..Len(rows) |->
        [ticker |-> rows[k].ticker,
         relative_strength |-> rows[k].relative_strength,
         resilient_ratio |-> rows[k].resilient_ratio,
         dividend_yield |-> rows[k].dividend_yield,
         avg_volume |-> rows[k].avg_volume,
         score |-> rows[k].score,
         rank |-> k]]

\* get_anti_crisis_top10: the frames it may return (an empty one is <<>>)
get_anti_crisis_top10(df, liquidity_min) ==
    LET stress_dates == find_stress_days(MoexRows(df), StressThreshold)
        results == Results(df, StockSymbols(df), stress_dates, liquidity_min)
    IN  IF stress_dates = <<>> THEN {[raised |-> FALSE, frame |-> <<>>]}
        ELSE IF results.raised THEN {[raised |-> TRUE, frame |-> <<>>]}
        ELSE IF results.rows = <<>> THEN {[raised |-> FALSE, frame |-> <<>>]}
        ELSE {[raised |-> FALSE, frame |-> WithRank(Head10(sorted))] :
                 sorted \in SortedOrders(results.rows, 1..Len(results.rows))}

\* run_analysis: the responses it may give
run_analysis(json_data, liquidity_min) ==
    IF json_data = <<>> THEN {ValueError("empty input")}
    ELSE IF MoexRows(json_data) = <<>> THEN {ValueError("no MOEX data")}
    ELSE IF StocksFrame(json_data) = <<>> THEN {ValueError("no stock data")}
    ELSE {IF top10.raised THEN TypeError("float + NoneType")
          ELSE [status |-> "ok", data |-> top10.frame] :
             top10 \in get_anti_crisis_top10(json_data, liquidity_min)}

\* the endpoint: ValueError becomes 400, any other exception 500
anti_crisis_response(outcome) ==
    IF outcome.status = "ok" THEN outcome
    ELSE IF outcome.error = "ValueError" THEN HTTPException(400, outcome.detail)
    ELSE HTTPException(500, "Internal server error")

anti_crisis_top10 ==
    /\ pc = "input"
    /\ op = "anti_crisis_ranking"
    /\ \E outcome \in run_analysis(records, args.liquidity_min) :
          result' = anti_crisis_response(outcome)
    /\ pc' = "done"
    /\ UNCHANGED <<op, records, args>>

(***************************************************************************)
(* Requests put together record by record: the benchmark in any order      *)
(***************************************************************************)
IndexCloses == {198, 199, 200}

\* StockDataItem
StockDataItem ==
    [symbol : {"MOEX"}, date : 1..MaxIndexDate, close : IndexCloses,
     avg_dividend : {None}, value : {None}]
    \cup
    [symbol : {"SBER"}, date : {1}, close : {100}, avg_dividend : {5}, value : {60 * Million}]

InitStress ==
    /\ op = "anti_crisis_ranking"
    /\ records = <<>>
    /\ args = [liquidity_min |-> 50]
    /\ result = NoResult
    /\ pc = "input"

AddStockDataItem ==
    /\ pc = "input"
    /\ op = "anti_crisis_ranking"
    /\ Len(records) < MaxIndexRecords
    /\ \E r \in StockDataItem : records' = Append(records, r)
    /\ UNCHANGED <<op, args, result, pc>>

NextStress == AddStockDataItem \/ anti_crisis_top10

SpecStress == InitStress /\ [][NextStress]_vars

(***************************************************************************)
(* Requests put together series by series: many stocks                     *)
(***************************************************************************)
\* the benchmark, by date: "falling" loses 1% or more every day, "dip" loses
\* 1% on the second day and stays
IndexSeries(kind) ==
    [d \in 1..MaxRankDate |->
        [symbol |-> "MOEX", date |-> d,
         close |-> IF kind = "falling" THEN 200 - 2 * (d - 1) ELSE IF d = 1 THEN 200 ELSE 198,
         avg_dividend |-> None, value |-> None]]

\* what a stock sends.  "own": a dividend no other stock has; "tied": the
\* dividend of every tied stock, and a traded value of exactly 50 million;
\* "illiquid": a traded value of 40 million; "sparse": no record after the
\* second day; "undeclared": no dividend
StockProfiles(k) ==
    IF k = 1 THEN {"own", "tied", "illiquid", "sparse", "undeclared"} ELSE {"own", "tied"}

StockSeries(k, profile) ==
    [d \in 1..(IF profile = "sparse" THEN 2 ELSE MaxRankDate) |->
        [symbol |-> Tickers[k], date |-> d, close |-> 100,
         avg_dividend |-> IF profile = "tied" THEN 0
                          ELSE IF profile = "undeclared" THEN None ELSE k,
         value |-> IF profile = "illiquid" THEN 40 * Million
                   ELSE IF profile = "tied" THEN 50 * Million ELSE 60 * Million]]

\* the stocks of the request, as positions in Tickers
StocksSent(recs) ==
    {Rank(Tickers, r.symbol) : r \in {recs[i] : i \in {j \in 1..Len(recs) : recs[j].symbol # "MOEX"}}}

TiedSent(recs) ==
    {Rank(Tickers, r.symbol) :
        r \in {recs[i] : i \in {j \in 1..Len(recs) :
                                   recs[j].symbol # "MOEX" /\ recs[j].avg_dividend = 0}}}

InitRanking ==
    /\ op = "anti_crisis_ranking"
    /\ records = <<>>
    /\ args = [liquidity_min |-> 50]
    /\ result = NoResult
    /\ pc = "input"

AddIndexSeries ==
    /\ pc = "input"
    /\ op = "anti_crisis_ranking"
    /\ records = <<>>
    /\ \E kind \in {"falling", "dip"} : records' = IndexSeries(kind)
    /\ UNCHANGED <<op, args, result, pc>>

\* the stocks are sent in ascending order of their tickers from the first
\* one, or in descending order from the last one
AddStockSeries ==
    /\ pc = "input"
    /\ op = "anti_crisis_ranking"
    /\ LET sent == StocksSent(records)
       IN  \E k \in 1..MaxStocks : \E profile \in StockProfiles(k) :
             /\ k \notin sent
             /\ \/ sent = {} /\ k \in {1, MaxStocks}
                \/ 1 \in sent /\ k - 1 \in sent /\ sent = 1..(k - 1)
                \/ MaxStocks \in sent /\ k + 1 \in sent /\ sent = (k + 1)..MaxStocks
             /\ profile = "tied" => Cardinality(TiedSent(records)) < MaxTied
             /\ records' = records \o StockSeries(k, profile)
    /\ UNCHANGED <<op, args, result, pc>>

NextRanking == AddIndexSeries \/ AddStockSeries \/ anti_crisis_top10

SpecRanking == InitRanking /\ [][NextRanking]_vars

(***************************************************************************)
(* Claims about the anti-crisis ranking                                    *)
(***************************************************************************)
RankingDone == pc = "done" /\ op = "anti_crisis_ranking"

RankingReturned == RankingDone /\ result.status = "ok"

\* the dates, other than the earliest, on which the benchmark closed down by
\* the threshold or more from the date before, in date order
StressDaysByDate(moex_data, threshold) ==
    LET index == SortedSeq({moex_data[k].date : k \in 1..Len(moex_data)})
        close(d) == moex_data[CHOOSE k \in 1..Len(moex_data) : moex_data[k].date = d].close
    IN  {index[k] : k \in {m \in 2..Len(index) :
                              RatLeq(PctReturn(close(index[m]), close(index[m - 1])),
                                     threshold)}}

BenchmarkDatesUnique(df) ==
    \A i, j \in 1..Len(df) :
        (df[i].symbol = "MOEX" /\ df[j].symbol = "MOEX" /\ df[i].date = df[j].date) => i = j

\* C10: whatever the order in which the benchmark records are sent, the
\* stress days the ranking works from are exactly the dates, other than the
\* earliest one, on which the benchmark closed 1% or more below its close of
\* the preceding date.
C10_StressDaysFollowDateOrder ==
    (RankingReturned /\ BenchmarkDatesUnique(records)) =>
        LET found == find_stress_days(MoexRows(records), StressThreshold)
        IN  {found[k] : k \in 1..Len(found)} = StressDaysByDate(MoexRows(records), StressThreshold)

\* the candidates the ranking sorts, and where a symbol first occurs
Candidates ==
    Results(records, StockSymbols(records),
            find_stress_days(MoexRows(records), StressThreshold), args.liquidity_min).rows

FirstOccurrence(sym) == CHOOSE i \in 1..Len(records) :
                            records[i].symbol = sym /\ \A j \in 1..(i - 1) : records[j].symbol # sym

SameScore(a, b) == ~IsNaN(a.score) /\ a.score = b.score

\* C9: ranked candidates of equal score come out in the order in which their
\* symbols first occur in the request, and a candidate is cut only if every
\* kept candidate of its score occurs before it.
C9_TiesInInputOrder ==
    RankingReturned =>
        LET data == result.data
            kept == {data[k].ticker : k \in 1..Len(data)}
        IN  /\ \A i, j \in 1..Len(data) :
                  (i < j /\ SameScore(data[i], data[j])) =>
                      FirstOccurrence(data[i].ticker) < FirstOccurrence(data[j].ticker)
            /\ \A c \in 1..Len(Candidates), i \in 1..Len(data) :
                  (Candidates[c].ticker \notin kept /\ SameScore(data[i], Candidates[c])) =>
                      FirstOccurrence(data[i].ticker) < FirstOccurrence(Candidates[c].ticker)

\* C6: a ranking has at most 10 records, their ranks are 1, 2, ..., N in the
\* order of the output, and no record has a higher score than the one before.
C6_AtMostTenRankedByScore ==
    RankingReturned =>
        LET data == result.data
        IN  /\ Len(data) <= TopN
            /\ \A k \in 1..Len(data) : data[k].rank = k
            /\ \A k \in 1..(Len(data) - 1) : FloatLeq(data[k + 1].score, data[k].score)

\* the stocks of the request
StocksOf(df) == {df[i].symbol : i \in {j \in 1..Len(df) : df[j].symbol # "MOEX"}}

\* the mean of the traded value of a stock over all its records, in millions,
\* is liquidity_min or more
LiquidEnough(sym) ==
    LET rows == SelectSeq(records, LAMBDA r : r.symbol = sym)
    IN  SumOver([k \in 1..Len(rows) |-> ToNumeric(rows[k].value)], 1..Len(rows))
            >= args.liquidity_min * Million * Len(rows)

\* the stress days on which both the stock and the benchmark have a record
AlignedStressDates(sym) ==
    {d \in StressDaysByDate(MoexRows(records), StressThreshold) :
        \E i \in 1..Len(records) : records[i].symbol = sym /\ records[i].date = d}

Eligible(sym) == LiquidEnough(sym) /\ Cardinality(AlignedStressDates(sym)) >= 2

\* C11: a stock is in the ranking only if the mean of its traded value, in
\* millions, is liquidity_min or more and it has records on two or more
\* stress days of the benchmark; a stock that fails either is left out and
\* the request is still answered.
C11_OnlyEligibleRanked ==
    /\ RankingReturned =>
           \A k \in 1..Len(result.data) : Eligible(result.data[k].ticker)
    /\ (/\ RankingDone
        /\ MoexRows(records) # <<>>
        /\ StocksOf(records) # {}
        /\ \A i \in 1..Len(records) :
               (records[i].symbol # "MOEX" /\ Eligible(records[i].symbol)) =>
                   records[i].avg_dividend # None)
           => result.status = "ok"

\* a request with a ranked stock, a stock short of traded value and nothing
\* else wrong
C11_Witness ==
    /\ RankingReturned
    /\ result.data # <<>>
    /\ \E sym \in StocksOf(records) :
          /\ ~LiquidEnough(sym)
          /\ Cardinality(AlignedStressDates(sym)) >= 2
          /\ \A k \in 1..Len(result.data) : result.data[k].ticker # sym

(***************************************************************************)
(* Claims about gaps in the prices of portfolio_metrics                    *)
(***************************************************************************)
HasPrice(sym, d) == \E i \in 1..Len(records) : records[i].symbol = sym /\ records[i].date = d

PriceOn(sym, d) ==
    records[CHOOSE i \in 1..Len(records) : records[i].symbol = sym /\ records[i].date = d].close

\* a symbol without a price on a date on which another symbol has one
HasGap(sym) == \E d \in DatesOf(records) : ~HasPrice(sym, d)

\* the date before d among the dates of the request
PreviousDate(d) == CHOOSE e \in DatesOf(records) :
                       e < d /\ \A f \in DatesOf(records) : f < d => f <= e

\* the dates on which every symbol has a return: a price on the date and on
\* the date before it
CommonReturnDates ==
    {d \in DatesOf(records) :
        /\ \E e \in DatesOf(records) : e < d
        /\ \A sym \in SymbolsOf(records) : HasPrice(sym, d) /\ HasPrice(sym, PreviousDate(d))}

\* the returns of a symbol on two dates differ
ReturnsDiffer(sym, d, e) ==
    PriceOn(sym, d) * PriceOn(sym, PreviousDate(e)) # PriceOn(sym, e) * PriceOn(sym, PreviousDate(d))

\* the call got as far as the returns
PastValidation ==
    IF result.status = "ok" THEN TRUE ELSE result.detail = "not enough data"

GapInRequest == MetricsDone /\ records # <<>> /\ PastValidation /\ \E sym \in SymbolsOf(records) : HasGap(sym)

\* C12 (as the specification states it): a symbol with a gap is dropped from
\* the computation and the dates are kept, so the symbols without a gap are
\* computed over all their dates: with one such symbol left the metrics are
\* returned and no correlation enters them.
C12_GapDropsSymbol ==
    (/\ GapInRequest
     /\ Cardinality(DatesOf(records)) >= 2
     /\ Cardinality({sym \in SymbolsOf(records) : ~HasGap(sym)}) = 1) =>
        /\ result.status = "ok"
        /\ result.average_correlation = 0
        /\ result.diversification_index = 10000

\* C12 (amended): a gap discards dates, not symbols.  Only the dates on which
\* every symbol has a return are computed on; with no such date the call is
\* rejected for lack of data, with one there is no correlation, and with two
\* the symbol with the gap is correlated with the others all the same.
C12_GapDropsDates ==
    GapInRequest =>
        /\ CommonReturnDates = {} <=> result.status = "error"
        /\ Cardinality(CommonReturnDates) = 1 =>
              result.average_correlation = 0 /\ result.diversification_index = 10000
        /\ \A d, e \in CommonReturnDates :
              (/\ CommonReturnDates = {d, e}
               /\ d # e
               /\ Cardinality(SymbolsOf(records)) = 2
               /\ \A sym \in SymbolsOf(records) : ReturnsDiffer(sym, d, e)) =>
                  result.average_correlation \in {-10000, 10000}

\* a symbol with a gap that is still correlated with the other one
C12_Witness ==
    /\ GapInRequest
    /\ result.status = "ok"
    /\ Cardinality(CommonReturnDates) = 2
    /\ result.average_correlation \in {-10000, 10000}

====
